---- MODULE Spec2Model ----
(***************************************************************************)
(* ip_watch: resolve a list of hostnames, compare each answer with the     *)
(* snapshot stored in <state-dir>/last_ips.json, append one JSON line to   *)
(* the log per failure or change, and rewrite the snapshot when something  *)
(* changed.                                                                *)
(*                                                                         *)
(* Two near-duplicate scripts exist: src/.github/workflows/ip_watch.py     *)
(* (variant "workflow": normalises its arguments) and src/ip_watch.py      *)
(* (variant "root": no normalisation, passes timeout= to getaddrinfo).     *)
(* A run is a process p; its program counter pc[p] walks through main().   *)
(* Strings are sequences of tokens, files are sequences of JSON tokens,    *)
(* IP literals are integers ordered as the literals are ordered as text.   *)
(* Timestamps (iso_now) are left out of the log events.                    *)
(***************************************************************************)
EXTENDS Integers, Sequences, FiniteSets, TLC

\* ---------------------------------------------------------------- bounds
MaxRuns == 2
MaxHosts == 2
MaxRetries == 1
\* Runs of the specification that starts from an arbitrary state file.
MaxLoadRuns == 1

Procs == {1, 2}
Variants == {"workflow", "root"}
\* Raw getaddrinfo answers (the sockaddr[0] of each info, in answer order):
\* empty, single, unsorted, duplicated.
InfoLists == {<<>>, <<1>>, <<2, 1>>, <<2, 2>>}
\* Errors an attempt can raise (socket.gaierror instances).
Errors == {"e1", "e2"}
\* raise None -> TypeError (retries < 0, so that no attempt was made).
ErrRaiseNone == "raise_none"
\* getaddrinfo() got an unexpected keyword argument 'timeout'.
ErrTimeoutKwarg == "timeout_kwarg"
NoErr == "none"

\* ---------------------------------------------------------------- strings
InA == <<"a">>
InB == <<"b">>
InUrlA == <<"https", "://", "a", ":", "443", "/", "p">>
HostInputs == {InA, InB, InUrlA}

RECURSIVE SeqsUpTo(_, _)
SeqsUpTo(S, n) ==
    IF n = 0 THEN {<<>>}
    ELSE LET shorter == SeqsUpTo(S, n - 1)
         IN  shorter \cup {Append(s, x) : s \in {t \in shorter : Len(t) = n - 1}, x \in S}

HostLists(n) == SeqsUpTo(HostInputs, n) \ {<<>>}
RetriesValues == (-1) .. MaxRetries

\* Position of the first occurrence of token t in s, Len(s) + 1 when absent.
RECURSIVE FirstIndex(_, _, _)
FirstIndex(s, t, i) ==
    IF i > Len(s) THEN Len(s) + 1
    ELSE IF s[i] = t THEN i ELSE FirstIndex(s, t, i + 1)

\* s.split(t)[0]
SplitHead(s, t) == SubSeq(s, 1, FirstIndex(s, t, 1) - 1)

RECURSIVE StripLeft(_)
StripLeft(s) == IF s # <<>> /\ Head(s) = " " THEN StripLeft(Tail(s)) ELSE s
RECURSIVE StripRight(_)
StripRight(s) ==
    IF s # <<>> /\ s[Len(s)] = " " THEN StripRight(SubSeq(s, 1, Len(s) - 1)) ELSE s
Strip(s) == StripRight(StripLeft(s))

\* urlparse(s) for s of the shape <scheme> "://" <rest>: netloc is what
\* follows "://" up to the first "/", path is the rest from that "/" on.
UrlNetloc(s) ==
    LET rest == SubSeq(s, FirstIndex(s, "://", 1) + 1, Len(s))
    IN  SplitHead(rest, "/")
UrlPath(s) ==
    LET rest == SubSeq(s, FirstIndex(s, "://", 1) + 1, Len(s))
    IN  SubSeq(rest, FirstIndex(rest, "/", 1), Len(rest))

normalize_host(raw) ==
    LET s == Strip(raw)
        host == IF FirstIndex(s, "://", 1) <= Len(s)
                THEN (IF UrlNetloc(s) # <<>> THEN UrlNetloc(s) ELSE UrlPath(s))
                ELSE SplitHead(s, "/")
    IN  SplitHead(host, ":")

\* Order of the tokens as text, and of strings token by token.
TokRank(t) ==
    CASE t = " " -> 0
      [] t = "/" -> 1
      [] t = "443" -> 2
      [] t = ":" -> 3
      [] t = "://" -> 4
      [] t = "@" -> 5
      [] t = "a" -> 6
      [] t = "b" -> 7
      [] t = "https" -> 8
      [] t = "p" -> 9
      [] t = "pw" -> 10
      [] t = "user" -> 11
      [] OTHER -> 12

RECURSIVE StrLess(_, _)
StrLess(s, t) ==
    IF t = <<>> THEN FALSE
    ELSE IF s = <<>> THEN TRUE
    ELSE IF TokRank(Head(s)) # TokRank(Head(t)) THEN TokRank(Head(s)) < TokRank(Head(t))
    ELSE StrLess(Tail(s), Tail(t))

\* ---------------------------------------------------------------- lists
Min(S) == CHOOSE x \in S : \A y \in S : x <= y

\* sorted(set): the elements of S in increasing order.
RECURSIVE SortedOfSet(_)
SortedOfSet(S) ==
    IF S = {} THEN <<>> ELSE <<Min(S)>> \o SortedOfSet(S \ {Min(S)})

Range(s) == {s[i] : i \in 1 .. Len(s)}

RECURSIVE Insert(_, _)
Insert(x, s) ==
    IF s = <<>> THEN <<x>>
    ELSE IF x <= Head(s) THEN <<x>> \o s ELSE <<Head(s)>> \o Insert(x, Tail(s))

\* sorted(list): duplicates are kept.
RECURSIVE sorted(_)
sorted(s) == IF s = <<>> THEN <<>> ELSE Insert(Head(s), sorted(Tail(s)))

IsSorted(s) == \A i \in 1 .. Len(s) - 1 : s[i] <= s[i + 1]
NoDuplicates(s) == \A i, j \in 1 .. Len(s) : s[i] = s[j] => i = j

\* ---------------------------------------------------------------- JSON
\* A parsed JSON document: an object (t = "obj", m the mapping) or a top-level
\* array (t = "arr").
Obj(m) == [t |-> "obj", m |-> m]
EmptyMap == [k \in {} |-> <<>>]
TopArray == [t |-> "arr", m |-> EmptyMap]

LBrace == [tok |-> "{", key |-> <<>>, val |-> <<>>]
RBrace == [tok |-> "}", key |-> <<>>, val |-> <<>>]
LBracket == [tok |-> "[", key |-> <<>>, val |-> <<>>]
RBracket == [tok |-> "]", key |-> <<>>, val |-> <<>>]
Junk == [tok |-> "junk", key |-> <<>>, val |-> <<>>]
Entry(k, v) == [tok |-> "entry", key |-> k, val |-> v]

MinKey(K) == CHOOSE k \in K : \A j \in K \ {k} : StrLess(k, j)

RECURSIVE DumpEntries(_, _)
DumpEntries(m, K) ==
    IF K = {} THEN <<>>
    ELSE <<Entry(MinKey(K), m[MinKey(K)])>> \o DumpEntries(m, K \ {MinKey(K)})

\* json.dump(data, f, indent=2, sort_keys=True)
JsonDump(d) ==
    IF d.t = "obj" THEN <<LBrace>> \o DumpEntries(d.m, DOMAIN d.m) \o <<RBrace>>
    ELSE <<LBracket, RBracket>>

\* json.load: ok = FALSE stands for the exception it raises. A later entry
\* with the same key replaces an earlier one.
RECURSIVE LoadEntries(_, _)
LoadEntries(text, i) ==
    IF i < 2 THEN EmptyMap
    ELSE LET m == LoadEntries(text, i - 1)
         IN  [k \in DOMAIN m \cup {text[i].key} |->
                 IF k = text[i].key THEN text[i].val ELSE m[k]]

JsonLoad(text) ==
    IF /\ Len(text) >= 2
       /\ text[1] = LBrace
       /\ text[Len(text)] = RBrace
       /\ \A i \in 2 .. Len(text) - 1 : text[i].tok = "entry"
    THEN [ok |-> TRUE, doc |-> Obj(LoadEntries(text, Len(text) - 1))]
    ELSE IF text = <<LBracket, RBracket>>
    THEN [ok |-> TRUE, doc |-> TopArray]
    ELSE [ok |-> FALSE, doc |-> Obj(EmptyMap)]

\* ---------------------------------------------------------------- files
NoFile == [exists |-> FALSE, readable |-> FALSE, text |-> <<>>]
File(text) == [exists |-> TRUE, readable |-> TRUE, text |-> text]

load_state(f) ==
    IF ~f.exists THEN Obj(EmptyMap)
    ELSE IF ~f.readable THEN Obj(EmptyMap)
    ELSE IF JsonLoad(f.text).ok THEN JsonLoad(f.text).doc
    ELSE Obj(EmptyMap)

\* ---------------------------------------------------------------- events
FailedEvent(host, err) ==
    [event |-> "dns_lookup_failed", host |-> host, error |-> err,
     before |-> <<>>, after |-> <<>>]
ChangedEventSwapped(host, before, after) ==
    [event |-> "ip_changed", host |-> host, error |-> NoErr,
     before |-> after, after |-> before]
ChangedEvent(host, before, after) ==
    [event |-> "ip_changed", host |-> host, error |-> NoErr,
     before |-> before, after |-> after]

\* open(log_file, "w"): the log is truncated at every event
write_log(log, line) == <<line>>
\* append_log: open(log_file, "a"), one line written, closed
append_log(log, line) == Append(log, line)

\* ---------------------------------------------------------------- state
VARIABLES
    stateFile,  \* <state-dir>/last_ips.json
    tmpFile,    \* <state-dir>/last_ips.json.tmp
    logFile,    \* the log: the sequence of events appended so far
    runs,       \* number of runs started
    pc,         \* pc[p]: where run p is in main()
    args,       \* args[p]: variant, hostnames, retries
    loc,        \* loc[p]: the local variables of main, resolve_all, save_state
    hist        \* hist[p]: what run p saw and did (history, not program state)

vars == <<stateFile, tmpFile, logFile, runs, pc, args, loc, hist>>

Ended == {"idle", "done", "killed", "crashed"}
Active == {"loop", "resolve", "resolved_ok", "resolved_err",
           "save_open", "save_write", "save_replace"}

InitArgs == [variant |-> "workflow", hostnames |-> <<>>, retries |-> 0]
InitLoc ==
    [state |-> Obj(EmptyMap), changed_any |-> FALSE, exit_code |-> 0,
     idx |-> 1, host |-> <<>>, lookup |-> <<>>, n |-> 0, last_err |-> NoErr,
     raised |-> NoErr, current_ips |-> <<>>, fh |-> "none", off |-> 0]
\* What is remembered of the run before: how it ended, where its part of the
\* log starts and, in the specification of repeated runs, the host list and
\* the answers of a run that finished with every hostname resolved.
NoPrev == [end |-> "idle", log0 |-> 0, hostnames |-> <<>>, answers |-> <<>>]
InitHist ==
    [file0 |-> NoFile, log0 |-> 0, tries |-> <<>>, sleeps |-> 0,
     outcomes |-> <<>>, wrote |-> FALSE, saved |-> <<>>,
     overlapped |-> {}, prev |-> NoPrev]

Init ==
    /\ stateFile = NoFile
    /\ tmpFile = NoFile
    /\ logFile = <<>>
    /\ runs = 0
    /\ pc = [p \in Procs |-> "idle"]
    /\ args = [p \in Procs |-> InitArgs]
    /\ loc = [p \in Procs |-> InitLoc]
    /\ hist = [p \in Procs |-> InitHist]

\* ---------------------------------------------------------------- main
\* state.get(host, [])
Get(m, h) == IF h \in DOMAIN m THEN m[h] ELSE <<>>
\* the assignment left out: the snapshot in memory is never updated
PutNothing(m, h, ips) == m
\* state = {host: ips}: the other entries are dropped
PutOnly(m, h, ips) == [k \in {h} |-> ips]
\* state[host] = ips
Put(m, h, ips) == [k \in DOMAIN m \cup {h} |-> IF k = h THEN ips ELSE m[k]]

\* The host main() works with: normalised in the workflow script, the raw
\* argument in the root script.
MainHost(v, raw) == IF v = "workflow" THEN normalize_host(raw) ELSE raw
\* The name resolve_all hands to getaddrinfo: the workflow script normalises
\* its argument once more.
LookupName(v, h) == IF v = "workflow" THEN normalize_host(h) ELSE h

\* range(retries + 1)
AttemptsAllowed(r) == r + 1
\* the first error is kept
KeepFirstErr(old, e) == IF old = NoErr THEN e ELSE old
\* except Exception as e: last_err = e
NextLastErr(old, e) == e
\* the answer as it came: not deduplicated, not sorted
RawList(infos) == infos
\* return sorted(ips), ips the set of the sockaddr[0] of the answer
ResolvedList(infos) == SortedOfSet(Range(infos))
\* raise last_err
RaisedError(last) == IF last = NoErr THEN ErrRaiseNone ELSE last
\* if sorted(prev_ips) != current_ips
Differs(prev, cur) == sorted(prev) # cur
\* exit_code is left as it was
ExitCodeKept(old) == old
\* exit_code = 2
ExitCodeAfterFailure(old) == 2
\* save_state is never called
NeverSave(changed) == FALSE
\* save_state is called whether or not anything changed
AlwaysSave(changed) == TRUE
\* if changed_any: save_state(...)
MustSave(changed) == changed

PrevRun(p, keep) ==
    LET whole == /\ keep
                 /\ pc[p] = "done"
                 /\ \A i \in 1 .. Len(hist[p].outcomes) : hist[p].outcomes[i].res # "failed"
    IN  [end |-> pc[p],
         log0 |-> hist[p].log0,
         hostnames |-> IF whole THEN args[p].hostnames ELSE <<>>,
         answers |-> IF whole
                     THEN [i \in 1 .. Len(hist[p].outcomes) |-> hist[p].outcomes[i].ips]
                     ELSE <<>>]

\* parse_args, load_state, changed_any = False, exit_code = 0
Start(p, VS, HL, RS, maxRuns, keep) ==
    /\ pc[p] \in Ended
    /\ runs < maxRuns
    /\ \E v \in VS, hs \in HL, r \in RS :
          args' = [args EXCEPT ![p] = [variant |-> v, hostnames |-> hs, retries |-> r]]
    /\ loc' = [loc EXCEPT ![p] = [InitLoc EXCEPT !.state = load_state(stateFile)]]
    /\ hist' = [q \in Procs |->
                  IF q = p
                  THEN [InitHist EXCEPT !.file0 = stateFile, !.log0 = Len(logFile),
                                        !.prev = PrevRun(p, keep)]
                  ELSE [hist[q] EXCEPT !.overlapped = @ \ {p}]]
    /\ pc' = [pc EXCEPT ![p] = "loop"]
    /\ runs' = runs + 1
    /\ UNCHANGED <<stateFile, tmpFile, logFile>>

\* for host_input in args.hostnames: host = normalize_host(host_input);
\* entry of resolve_all: ips = set(), last_err = None
NextHost(p) ==
    /\ pc[p] = "loop"
    /\ loc[p].idx <= Len(args[p].hostnames)
    /\ LET h == MainHost(args[p].variant, args[p].hostnames[loc[p].idx])
       IN  loc' = [loc EXCEPT ![p].host = h,
                              ![p].lookup = LookupName(args[p].variant, h),
                              ![p].n = 0,
                              ![p].last_err = NoErr,
                              ![p].raised = NoErr,
                              ![p].current_ips = <<>>]
    /\ hist' = [hist EXCEPT ![p].tries = <<>>, ![p].sleeps = 0]
    /\ pc' = [pc EXCEPT ![p] = "resolve"]
    /\ UNCHANGED <<stateFile, tmpFile, logFile, runs, args>>

\* The errors an attempt of the variant can raise: the root script's call
\* getaddrinfo(..., timeout=timeout) is a TypeError on every attempt.
AttemptErrors(v, ES) == IF v = "workflow" THEN ES ELSE {ErrTimeoutKwarg}

\* one attempt raises: last_err = e; time.sleep(0.3)
AttemptFails(p, ES) ==
    /\ pc[p] = "resolve"
    /\ loc[p].n < AttemptsAllowed(args[p].retries)
    /\ \E e \in AttemptErrors(args[p].variant, ES) :
          /\ loc' = [loc EXCEPT ![p].n = @ + 1,
                                ![p].last_err = NextLastErr(@, e)]
          /\ hist' = [hist EXCEPT
                        ![p].tries = Append(@, [ok |-> FALSE, err |-> e, infos |-> <<>>]),
                        ![p].sleeps = @ + 1]
    /\ UNCHANGED <<stateFile, tmpFile, logFile, runs, pc, args>>

\* one attempt answers: return sorted(ips)
AttemptSucceeds(p) ==
    /\ pc[p] = "resolve"
    /\ loc[p].n < AttemptsAllowed(args[p].retries)
    /\ args[p].variant = "workflow"
    /\ \E infos \in InfoLists :
          /\ loc' = [loc EXCEPT ![p].n = 0,
                                ![p].last_err = NoErr,
                                ![p].current_ips = ResolvedList(infos)]
          /\ hist' = [hist EXCEPT
                        ![p].tries = Append(@, [ok |-> TRUE, err |-> NoErr, infos |-> infos])]
    /\ pc' = [pc EXCEPT ![p] = "resolved_ok"]
    /\ UNCHANGED <<stateFile, tmpFile, logFile, runs, args>>

\* the loop of resolve_all is exhausted: raise last_err (the locals of
\* resolve_all end with the call, here and when an attempt answers)
ResolveRaises(p) ==
    /\ pc[p] = "resolve"
    /\ loc[p].n >= AttemptsAllowed(args[p].retries)
    /\ loc' = [loc EXCEPT ![p].raised = RaisedError(loc[p].last_err),
                          ![p].n = 0,
                          ![p].last_err = NoErr]
    /\ pc' = [pc EXCEPT ![p] = "resolved_err"]
    /\ UNCHANGED <<stateFile, tmpFile, logFile, runs, args, hist>>

Outcome(p, res, prev, at) ==
    [host |-> loc[p].host, res |-> res, ips |-> loc[p].current_ips,
     prev |-> prev, at |-> at]

\* The except block without its continue: control falls through to the
\* comparison, with current_ips still empty.
HandleFailureNoContinue(p) ==
    /\ pc[p] = "resolved_err"
    /\ LET prev == Get(loc[p].state.m, loc[p].host)
           failed == Append(logFile, FailedEvent(loc[p].host, loc[p].raised))
       IN  IF prev # <<>>
           THEN /\ logFile' = Append(failed, ChangedEvent(loc[p].host, prev, <<>>))
                /\ loc' = [loc EXCEPT ![p].exit_code = 2, ![p].idx = @ + 1,
                                      ![p].raised = NoErr, ![p].lookup = <<>>,
                                      ![p].changed_any = TRUE,
                                      ![p].state = Obj(Put(loc[p].state.m, loc[p].host, <<>>))]
           ELSE /\ logFile' = failed
                /\ loc' = [loc EXCEPT ![p].exit_code = 2, ![p].idx = @ + 1,
                                      ![p].raised = NoErr, ![p].lookup = <<>>]
    /\ hist' = [hist EXCEPT
                  ![p].outcomes = Append(@, Outcome(p, "failed", <<>>, Len(logFile) + 1)),
                  ![p].tries = <<>>]
    /\ pc' = [pc EXCEPT ![p] = "loop"]
    /\ UNCHANGED <<stateFile, tmpFile, runs, args>>

\* The except block with break in the place of continue.
HandleFailureBreak(p) ==
    /\ pc[p] = "resolved_err"
    /\ logFile' = Append(logFile, FailedEvent(loc[p].host, loc[p].raised))
    /\ loc' = [loc EXCEPT ![p].exit_code = 2, ![p].idx = Len(args[p].hostnames) + 1,
                          ![p].raised = NoErr, ![p].lookup = <<>>]
    /\ hist' = [hist EXCEPT
                  ![p].outcomes = Append(@, Outcome(p, "failed", <<>>, Len(logFile) + 1)),
                  ![p].tries = <<>>]
    /\ pc' = [pc EXCEPT ![p] = "loop"]
    /\ UNCHANGED <<stateFile, tmpFile, runs, args>>

\* except Exception as e: append_log(dns_lookup_failed); exit_code = 2; continue
HandleFailure(p) ==
    /\ pc[p] = "resolved_err"
    /\ logFile' = append_log(logFile, FailedEvent(loc[p].host, loc[p].raised))
    /\ loc' = [loc EXCEPT ![p].exit_code = ExitCodeAfterFailure(@), ![p].idx = @ + 1,
                          ![p].raised = NoErr, ![p].lookup = <<>>]
    /\ hist' = [hist EXCEPT
                  ![p].outcomes = Append(@, Outcome(p, "failed", <<>>, Len(logFile) + 1)),
                  ![p].tries = <<>>]
    /\ pc' = [pc EXCEPT ![p] = "loop"]
    /\ UNCHANGED <<stateFile, tmpFile, runs, args>>

\* prev_ips = state.get(host, []); if sorted(prev_ips) != current_ips: ...
\* A loaded document that is no object has no get: AttributeError, uncaught.
HandleSuccess(p) ==
    /\ pc[p] = "resolved_ok"
    /\ IF loc[p].state.t # "obj"
       THEN /\ pc' = [pc EXCEPT ![p] = "crashed"]
            /\ UNCHANGED <<logFile, loc, hist>>
       ELSE LET prev == Get(loc[p].state.m, loc[p].host)
                cur == loc[p].current_ips
            IN  /\ pc' = [pc EXCEPT ![p] = "loop"]
                /\ IF Differs(prev, cur)
                   THEN /\ logFile' = append_log(logFile, ChangedEvent(loc[p].host, prev, cur))
                        /\ loc' = [loc EXCEPT
                                     ![p].changed_any = TRUE,
                                     ![p].state = Obj(Put(loc[p].state.m, loc[p].host, cur)),
                                     ![p].idx = @ + 1,
                                     ![p].current_ips = <<>>, ![p].lookup = <<>>]
                        /\ hist' = [hist EXCEPT
                                      ![p].outcomes =
                                          Append(@, Outcome(p, "changed", prev, Len(logFile) + 1)),
                                      ![p].tries = <<>>]
                   ELSE /\ logFile' = logFile
                        /\ loc' = [loc EXCEPT ![p].idx = @ + 1,
                                     ![p].current_ips = <<>>, ![p].lookup = <<>>]
                        /\ hist' = [hist EXCEPT
                                      ![p].outcomes = Append(@, Outcome(p, "unchanged", prev, 0)),
                                      ![p].tries = <<>>]
    /\ UNCHANGED <<stateFile, tmpFile, runs, args>>

\* the save and the exit indented into the loop body: taken as soon as one
\* hostname is handled
EndLoopEarly(p) ==
    /\ pc[p] = "loop"
    /\ loc[p].idx > 1
    /\ pc' = [pc EXCEPT ![p] = IF MustSave(loc[p].changed_any) THEN "save_open" ELSE "done"]
    /\ UNCHANGED <<stateFile, tmpFile, logFile, runs, args, loc, hist>>

\* after the loop: if changed_any: save_state(...); sys.exit(exit_code)
EndLoop(p) ==
    /\ pc[p] = "loop"
    /\ loc[p].idx > Len(args[p].hostnames)
    /\ pc' = [pc EXCEPT ![p] = IF MustSave(loc[p].changed_any) THEN "save_open" ELSE "done"]
    /\ UNCHANGED <<stateFile, tmpFile, logFile, runs, args, loc, hist>>

\* ---------------------------------------------------------------- save_state
\* A write of chunk at offset off into a file: it extends what the writer
\* wrote so far, or lands in a file somebody else truncated or wrote.
Written(f, off, chunk) ==
    [f EXCEPT !.text = IF Len(f.text) = off THEN f.text \o chunk ELSE <<Junk>>]

\* The name a handle's file gets when tmp is renamed over the state path.
AfterReplace(h) ==
    CASE h = "tmp" -> "state"
      [] h = "state" -> "orphan"
      [] OTHER -> h

\* open(path, "w"): the state file itself is opened and truncated
SaveOpenInPlace(p) ==
    /\ pc[p] = "save_open"
    /\ stateFile' = File(<<>>)
    /\ loc' = [loc EXCEPT ![p].fh = "state", ![p].off = 0]
    /\ hist' = [hist EXCEPT ![p].wrote = TRUE, ![p].saved = JsonDump(loc[p].state)]
    /\ pc' = [pc EXCEPT ![p] = "save_write"]
    /\ UNCHANGED <<tmpFile, logFile, runs, args>>

\* with open(tmp, "w"): creates the file, or truncates the one that is there
SaveOpen(p) ==
    /\ pc[p] = "save_open"
    /\ tmpFile' = File(<<>>)
    /\ loc' = [loc EXCEPT ![p].fh = "tmp", ![p].off = 0]
    /\ hist' = [hist EXCEPT ![p].wrote = TRUE, ![p].saved = JsonDump(loc[p].state)]
    /\ pc' = [pc EXCEPT ![p] = "save_write"]
    /\ UNCHANGED <<stateFile, logFile, runs, args>>

WriteChunk(p, chunk) ==
    /\ tmpFile' = IF loc[p].fh = "tmp" THEN Written(tmpFile, loc[p].off, chunk) ELSE tmpFile
    /\ stateFile' = IF loc[p].fh = "state" THEN Written(stateFile, loc[p].off, chunk)
                    ELSE stateFile

\* json.dump: the buffer is flushed before the document is complete
SaveFlush(p) ==
    /\ pc[p] = "save_write"
    /\ loc[p].off = 0
    /\ \E k \in 1 .. Len(JsonDump(loc[p].state)) - 1 :
          /\ WriteChunk(p, SubSeq(JsonDump(loc[p].state), 1, k))
          /\ loc' = [loc EXCEPT ![p].off = k]
    /\ UNCHANGED <<logFile, runs, pc, args, hist>>

\* end of the with block: the rest is written and the file closed
SaveClose(p) ==
    /\ pc[p] = "save_write"
    /\ LET text == JsonDump(loc[p].state)
       IN  WriteChunk(p, SubSeq(text, loc[p].off + 1, Len(text)))
    /\ loc' = [loc EXCEPT ![p].fh = "none", ![p].off = 0]
    /\ pc' = [pc EXCEPT ![p] = "save_replace"]
    /\ UNCHANGED <<logFile, runs, args, hist>>

\* os.replace(tmp, path); FileNotFoundError (uncaught) when tmp is gone.
\* Then sys.exit(exit_code).
SaveReplace(p) ==
    /\ pc[p] = "save_replace"
    /\ IF tmpFile.exists
       THEN /\ stateFile' = tmpFile
            /\ tmpFile' = NoFile
            /\ loc' = [q \in Procs |-> [loc[q] EXCEPT !.fh = AfterReplace(@)]]
            /\ hist' = [hist EXCEPT
                          ![p].overlapped = {q \in Procs \ {p} : pc[q] \in Active}]
            /\ pc' = [pc EXCEPT ![p] = "done"]
       ELSE /\ pc' = [pc EXCEPT ![p] = "crashed"]
            /\ UNCHANGED <<stateFile, tmpFile, loc, hist>>
    /\ UNCHANGED <<logFile, runs, args>>

\* The run is terminated from outside (job timeout, kill): its memory is gone,
\* its open file is closed without the buffer being written.
Kill(p) ==
    /\ pc[p] \in Active
    /\ pc' = [pc EXCEPT ![p] = "killed"]
    /\ loc' = [loc EXCEPT ![p] = InitLoc]
    /\ hist' = [hist EXCEPT ![p].tries = <<>>, ![p].sleeps = 0, ![p].outcomes = <<>>]
    /\ args' = [args EXCEPT ![p] = InitArgs]
    /\ UNCHANGED <<stateFile, tmpFile, logFile, runs>>

Step(p, VS, HL, RS, ES, maxRuns, keep) ==
    \/ Start(p, VS, HL, RS, maxRuns, keep)
    \/ NextHost(p)
    \/ AttemptFails(p, ES)
    \/ AttemptSucceeds(p)
    \/ ResolveRaises(p)
    \/ HandleFailure(p)
    \/ HandleSuccess(p)
    \/ EndLoop(p)
    \/ SaveOpen(p)
    \/ SaveFlush(p)
    \/ SaveClose(p)
    \/ SaveReplace(p)

\* Complete runs one after the other, from no state file and an empty log.
Next == \E p \in {1} : Step(p, Variants, HostLists(MaxHosts), RetriesValues, Errors, MaxRuns, FALSE)
Spec == Init /\ [][Next]_vars

\* Runs one after the other, each of which may be terminated at any point.
NextCrash ==
    \E p \in {1} :
        \/ Step(p, Variants, HostLists(MaxHosts), {0}, {"e1"}, MaxRuns, FALSE)
        \/ Kill(p)
SpecCrash == Init /\ [][NextCrash]_vars

\* Runs that overlap: both processes work on the same state path and log.
NextConc == \E p \in Procs : Step(p, {"workflow"}, HostLists(1), {0}, {"e1"}, MaxRuns, FALSE)
SpecConc == Init /\ [][NextConc]_vars

\* The conditions the state file can be in when a run starts: absent,
\* unreadable, empty, truncated, not JSON, JSON that is no object, an object
\* with sorted and with unsorted lists.
StartFiles ==
    {NoFile,
     [exists |-> TRUE, readable |-> FALSE, text |-> <<LBrace, Entry(InA, <<1>>), RBrace>>],
     File(<<>>),
     File(<<LBrace, Entry(InA, <<1>>)>>),
     File(<<Junk>>),
     File(<<LBracket, RBracket>>),
     File(<<LBrace, Entry(InA, <<1>>), RBrace>>),
     File(<<LBrace, Entry(InA, <<2, 1>>), RBrace>>)}

InitLoad ==
    /\ stateFile \in StartFiles
    /\ tmpFile = NoFile
    /\ logFile = <<>>
    /\ runs = 0
    /\ pc = [p \in Procs |-> "idle"]
    /\ args = [p \in Procs |-> InitArgs]
    /\ loc = [p \in Procs |-> InitLoc]
    /\ hist = [p \in Procs |-> InitHist]
NextLoad == \E p \in {1} : Step(p, Variants, HostLists(MaxHosts), {0}, {"e1"}, MaxLoadRuns, FALSE)
SpecLoad == InitLoad /\ [][NextLoad]_vars

\* The same run twice in a row: complete runs of the workflow script, the
\* answers of the run before remembered.
NextTwice ==
    \E p \in {1} : Step(p, {"workflow"}, HostLists(MaxHosts), {0}, {"e1"}, MaxRuns, TRUE)
SpecTwice == Init /\ [][NextTwice]_vars

\* The inputs of the Host Normalizer: a hostname with an optional scheme,
\* optional credentials, an optional port and an optional path.
MaxNormRuns == 1
NormHosts == {"a", "b"}
NormCases == [scheme : BOOLEAN, cred : BOOLEAN, host : NormHosts, port : BOOLEAN, path : BOOLEAN]
Build(c) ==
    (IF c.scheme THEN <<"https", "://">> ELSE <<>>)
        \o (IF c.cred THEN <<"user", ":", "pw", "@">> ELSE <<>>)
        \o <<c.host>>
        \o (IF c.port THEN <<":", "443">> ELSE <<>>)
        \o (IF c.path THEN <<"/", "p">> ELSE <<>>)
NextNorm ==
    \E p \in {1} :
        Step(p, {"workflow"}, {<<Build(c)>> : c \in NormCases}, {0}, {"e1"}, MaxNormRuns, FALSE)
SpecNorm == Init /\ [][NextNorm]_vars

\* Runs that may be terminated, on top of what an earlier run left: nothing,
\* or an entry for a and its ip_changed event.
InitRerun ==
    /\ \/ stateFile = NoFile /\ logFile = <<>>
       \/ /\ stateFile = File(JsonDump(Obj(Put(EmptyMap, InA, <<1>>))))
          /\ logFile = <<ChangedEvent(InA, <<>>, <<1>>)>>
    /\ tmpFile = NoFile
    /\ runs = 0
    /\ pc = [p \in Procs |-> "idle"]
    /\ args = [p \in Procs |-> InitArgs]
    /\ loc = [p \in Procs |-> InitLoc]
    /\ hist = [p \in Procs |-> InitHist]
NextRerun ==
    \E p \in {1} :
        \/ Step(p, {"workflow"}, HostLists(MaxHosts), {0}, {"e1"}, MaxRuns, FALSE)
        \/ Kill(p)
SpecRerun == InitRerun /\ [][NextRerun]_vars

\* ---------------------------------------------------------------- claims
\* What run p appended to the log.
Appended(p) == SubSeq(logFile, hist[p].log0 + 1, Len(logFile))
CountEvents(s, ev, h) == Cardinality({i \in 1 .. Len(s) : s[i].event = ev /\ s[i].host = h})
\* Event e is ip_changed of host h from list b to list a.
IsChange(e, h, b, a) ==
    e.event = "ip_changed" /\ e.host = h /\ e.before = b /\ e.after = a
\* The positions of host h in the host list of run p.
Occurrences(p, h) ==
    {i \in 1 .. Len(args[p].hostnames) : MainHost(args[p].variant, args[p].hostnames[i]) = h}
RunHosts(p) ==
    {MainHost(args[p].variant, args[p].hostnames[i]) : i \in 1 .. Len(args[p].hostnames)}
\* The entry of host h: <<list>>, or <<>> when there is none.
EntryOf(doc, h) == IF doc.t = "obj" /\ h \in DOMAIN doc.m THEN <<doc.m[h]>> ELSE <<>>
FileEntry(f, h) ==
    IF f.exists /\ JsonLoad(f.text).ok THEN EntryOf(JsonLoad(f.text).doc, h) ELSE <<>>
\* The snapshot run p loaded.
Loaded(p) == load_state(hist[p].file0)
FailedAt(p, i) == i \in 1 .. Len(hist[p].outcomes) /\ hist[p].outcomes[i].res = "failed"
ResolvedAt(p, i) == i \in 1 .. Len(hist[p].outcomes) /\ hist[p].outcomes[i].res # "failed"
\* Host h was reached by run p and every resolution of it failed.
AlwaysFailed(p, h) ==
    /\ Occurrences(p, h) # {}
    /\ \A i \in Occurrences(p, h) : FailedAt(p, i)

\* C1: a run that processed its whole list exits with 0 exactly when no
\* hostname exhausted its attempts and with 2 exactly when one did, whatever
\* changed and in whatever order.
C1_ExitStatus ==
    \A p \in Procs :
        pc[p] = "done" =>
            /\ Len(hist[p].outcomes) = Len(args[p].hostnames)
            /\ loc[p].exit_code \in {0, 2}
            /\ loc[p].exit_code = 0 <=> \A i \in 1 .. Len(args[p].hostnames) : ~FailedAt(p, i)
            /\ loc[p].exit_code = 2 <=> \E i \in 1 .. Len(args[p].hostnames) : FailedAt(p, i)

\* A finished run whose first host failed and whose second host changed.
C1_Witness ==
    /\ pc[1] = "done"
    /\ Len(hist[1].outcomes) = 2
    /\ hist[1].outcomes[1].res = "failed"
    /\ hist[1].outcomes[2].res = "changed"
    /\ loc[1].exit_code = 2

\* What C2 says of host h in the finished run p, with k failure events.
FailedHostLeftAlone(p, h, k) ==
    /\ CountEvents(Appended(p), "dns_lookup_failed", h) = k
    /\ CountEvents(Appended(p), "ip_changed", h) = 0
    /\ loc[p].exit_code = 2
    /\ EntryOf(loc[p].state, h) = EntryOf(Loaded(p), h)
    /\ FileEntry(stateFile, h) = FileEntry(hist[p].file0, h)

\* C2 as stated: a hostname whose every resolution of the run failed has
\* exactly one dns_lookup_failed event and no ip_changed event from that run,
\* the exit code is 2 and its snapshot entry is as before, in memory and on disk.
C2_ExactlyOneFailureEvent ==
    \A p \in Procs :
        pc[p] = "done" =>
            \A h \in RunHosts(p) : AlwaysFailed(p, h) => FailedHostLeftAlone(p, h, 1)

\* C2 amended: one dns_lookup_failed event for each occurrence of the
\* hostname in the host list; the rest as stated.
C2_OneFailureEventPerOccurrence ==
    \A p \in Procs :
        pc[p] = "done" =>
            \A h \in RunHosts(p) :
                AlwaysFailed(p, h) => FailedHostLeftAlone(p, h, Cardinality(Occurrences(p, h)))

\* A finished run in which a host that had an entry failed while the state
\* file was rewritten for another host.
C2_Witness ==
    /\ pc[1] = "done"
    /\ hist[1].wrote
    /\ \E h \in RunHosts(1) :
          /\ AlwaysFailed(1, h)
          /\ FileEntry(hist[1].file0, h) # <<>>
          /\ FileEntry(stateFile, h) = FileEntry(hist[1].file0, h)

\* Run p had two different hostnames, i failed and j resolved to a list other
\* than the stored one (no entry counting as the empty list).
OneFailedOneChanged(p, i, j) ==
    /\ Len(args[p].hostnames) = 2
    /\ {i, j} = {1, 2}
    /\ hist[p].outcomes[i].host # hist[p].outcomes[j].host
    /\ FailedAt(p, i)
    /\ ResolvedAt(p, j)
    /\ hist[p].outcomes[j].ips # Get(Loaded(p).m, hist[p].outcomes[j].host)

\* C3: a failing host never aborts the batch: a finished run processed every
\* hostname, and with two hostnames of which one changed and one failed, in
\* either order, it exits with 2, appended one dns_lookup_failed and one
\* ip_changed event, and the state file holds the new list of the one and the
\* old entry of the other.
C3_FailureDoesNotAbort ==
    \A p \in Procs :
        pc[p] = "done" =>
            /\ Len(hist[p].outcomes) = Len(args[p].hostnames)
            /\ \A i, j \in {1, 2} :
                  OneFailedOneChanged(p, i, j) =>
                      LET failed == hist[p].outcomes[i]
                          ok == hist[p].outcomes[j]
                      IN  /\ loc[p].exit_code = 2
                          /\ Len(Appended(p)) = 2
                          /\ Appended(p)[i].event = "dns_lookup_failed"
                          /\ Appended(p)[i].host = failed.host
                          /\ IsChange(Appended(p)[j], ok.host,
                                      Get(Loaded(p).m, ok.host), ok.ips)
                          /\ FileEntry(stateFile, ok.host) = <<ok.ips>>
                          /\ FileEntry(stateFile, failed.host) =
                                FileEntry(hist[p].file0, failed.host)

\* The failure comes first, on a host that had an entry; the change follows.
C3_Witness ==
    /\ pc[1] = "done"
    /\ OneFailedOneChanged(1, 1, 2)
    /\ FileEntry(hist[1].file0, hist[1].outcomes[1].host) # <<>>

\* What C4 says of the resolution at position i of the finished run p.
FirstSeenLogged(p, i) ==
    LET o == hist[p].outcomes[i]
    IN  /\ CountEvents(Appended(p), "ip_changed", o.host) = 1
        /\ \E k \in 1 .. Len(Appended(p)) : IsChange(Appended(p)[k], o.host, <<>>, o.ips)
        /\ FileEntry(stateFile, o.host) = <<o.ips>>

\* C4 as stated: a hostname without an entry in the stored snapshot whose
\* resolution succeeds gets, whatever the list, exactly one ip_changed event
\* with before = [] and after = the list, and the state file maps it to the list.
C4_FirstSeenAnyList ==
    \A p \in Procs :
        pc[p] = "done" =>
            \A i \in 1 .. Len(hist[p].outcomes) :
                (ResolvedAt(p, i) /\ EntryOf(Loaded(p), hist[p].outcomes[i].host) = <<>>)
                    => FirstSeenLogged(p, i)

\* C4 amended: the same for a hostname that is listed once in the run and
\* whose resolution returns a list that is not empty.
C4_FirstSeenNonEmptyList ==
    \A p \in Procs :
        pc[p] = "done" =>
            \A i \in 1 .. Len(hist[p].outcomes) :
                (/\ ResolvedAt(p, i)
                 /\ EntryOf(Loaded(p), hist[p].outcomes[i].host) = <<>>
                 /\ hist[p].outcomes[i].ips # <<>>
                 /\ Cardinality(Occurrences(p, hist[p].outcomes[i].host)) = 1)
                    => FirstSeenLogged(p, i)

\* A finished second run that saw a new hostname while the state file already
\* had an entry for another one.
C4_Witness ==
    /\ pc[1] = "done"
    /\ hist[1].file0.exists
    /\ \E i \in 1 .. Len(hist[1].outcomes) :
          /\ ResolvedAt(1, i)
          /\ EntryOf(Loaded(1), hist[1].outcomes[i].host) = <<>>
          /\ Len(hist[1].outcomes[i].ips) = 2
          /\ Cardinality(Occurrences(1, hist[1].outcomes[i].host)) = 1
          /\ FirstSeenLogged(1, i)

\* Every hostname of run p resolved to the list stored for it at load.
AllAsStored(p) ==
    \A i \in 1 .. Len(hist[p].outcomes) :
        /\ ResolvedAt(p, i)
        /\ hist[p].outcomes[i].ips = Get(Loaded(p).m, hist[p].outcomes[i].host)

\* C5: a finished run in which every hostname resolved to its stored list
\* appended no event and wrote neither the temporary file nor the state file.
C5_UnchangedWritesNothing ==
    \A p \in Procs :
        (pc[p] = "done" /\ AllAsStored(p)) =>
            /\ Appended(p) = <<>>
            /\ ~hist[p].wrote
            /\ stateFile = hist[p].file0
            /\ tmpFile = NoFile

\* A finished run over two hostnames with stored lists, both unchanged.
C5_Witness ==
    /\ pc[1] = "done"
    /\ AllAsStored(1)
    /\ Len(hist[1].outcomes) = 2
    /\ \A i \in {1, 2} : hist[1].outcomes[i].ips # <<>>
    /\ hist[1].outcomes[1].host # hist[1].outcomes[2].host

\* File f holds one complete serialised snapshot.
Complete(f) ==
    /\ f.exists
    /\ JsonLoad(f.text).ok
    /\ JsonLoad(f.text).doc.t = "obj"
    /\ JsonDump(JsonLoad(f.text).doc) = f.text
\* The state file is what run p loaded, or what run p handed to save_state.
OldOrNew(p) ==
    \/ stateFile = hist[p].file0
    \/ hist[p].wrote /\ stateFile = File(hist[p].saved)

\* C6: wherever a run stands or was terminated, the state file is the complete
\* previous snapshot (or still absent) or the complete new one.
C6_SaveIsAtomic ==
    \A p \in Procs :
        pc[p] # "idle" =>
            /\ OldOrNew(p)
            /\ stateFile.exists => Complete(stateFile)

\* A second run killed while the temporary file held a part of the new
\* snapshot: the state file is the previous one.
C6_Witness ==
    /\ pc[1] = "killed"
    /\ hist[1].wrote
    /\ hist[1].file0.exists
    /\ tmpFile.exists
    /\ Len(tmpFile.text) \in 1 .. Len(hist[1].saved) - 1
    /\ stateFile = hist[1].file0
    /\ stateFile.text # hist[1].saved

\* C7: with overlapping runs, the state file is at every moment absent or a
\* complete snapshot: the one a run loaded or the one a run saved.
C7_ReaderSeesCompleteSnapshot ==
    /\ stateFile.exists => Complete(stateFile)
    /\ \/ \A p \in Procs : pc[p] = "idle"
       \/ \E p \in Procs : pc[p] # "idle" /\ OldOrNew(p)

\* C8: with retries >= 0, attempts are made one after the other until the
\* first that answers and never more than retries + 1; the result is that
\* answer, sorted and without duplicates; resolve_all raises only after
\* retries + 1 failed attempts, and raises the error of the last one.
C8_ResolveAttempts ==
    \A p \in Procs :
        (args[p].retries >= 0 /\ pc[p] \in {"resolve", "resolved_ok", "resolved_err"}) =>
            LET t == hist[p].tries
            IN  /\ Len(t) <= args[p].retries + 1
                /\ \A i \in 1 .. Len(t) - 1 : ~t[i].ok
                /\ pc[p] = "resolve" => \A i \in 1 .. Len(t) : ~t[i].ok
                /\ pc[p] = "resolved_ok" =>
                      /\ Len(t) >= 1
                      /\ t[Len(t)].ok
                      /\ Range(loc[p].current_ips) = Range(t[Len(t)].infos)
                      /\ IsSorted(loc[p].current_ips)
                      /\ NoDuplicates(loc[p].current_ips)
                /\ pc[p] = "resolved_err" =>
                      /\ Len(t) = args[p].retries + 1
                      /\ \A i \in 1 .. Len(t) : ~t[i].ok
                      /\ loc[p].raised = t[Len(t)].err

\* resolve_all raises after two attempts that failed with different errors.
C8_Witness ==
    /\ pc[1] = "resolved_err"
    /\ args[1].retries = 1
    /\ Len(hist[1].tries) = 2
    /\ hist[1].tries[1].err = "e1"
    /\ hist[1].tries[2].err = "e2"
    /\ loc[1].raised = "e2"

\* File f cannot be used as a snapshot: absent, unreadable or not JSON.
Unusable(f) == ~f.exists \/ ~f.readable \/ ~JsonLoad(f.text).ok

\* C9: whatever the state file holds when the run starts, the run does not
\* end on an uncaught error: an unusable file is loaded as the empty snapshot,
\* every hostname is processed and the exit code is 0 or 2.
C9_LoadNeverFailsRun ==
    \A p \in Procs :
        /\ pc[p] # "crashed"
        /\ (pc[p] = "loop" /\ loc[p].idx = 1 /\ Unusable(hist[p].file0))
              => loc[p].state = Obj(EmptyMap)
        /\ pc[p] = "done" =>
              /\ Len(hist[p].outcomes) = Len(args[p].hostnames)
              /\ loc[p].exit_code \in {0, 2}

\* C10: the state file, once there, holds an object with one entry per
\* hostname, each list sorted and without duplicates.
C10_SnapshotSortedUnique ==
    stateFile.exists =>
        /\ JsonLoad(stateFile.text).ok
        /\ JsonLoad(stateFile.text).doc.t = "obj"
        /\ \A i, j \in 2 .. Len(stateFile.text) - 1 :
              stateFile.text[i].key = stateFile.text[j].key => i = j
        /\ \A h \in DOMAIN JsonLoad(stateFile.text).doc.m :
              /\ IsSorted(JsonLoad(stateFile.text).doc.m[h])
              /\ NoDuplicates(JsonLoad(stateFile.text).doc.m[h])

\* The state file holds the lists of an unsorted and of a duplicated answer.
C10_Witness ==
    /\ stateFile.exists
    /\ pc[1] = "done"
    /\ FileEntry(stateFile, InA) = <<(<<1, 2>>)>>
    /\ FileEntry(stateFile, InB) = <<(<<2>>)>>

\* The step handled one hostname of run p.
Recorded(p) == Len(hist'[p].outcomes) = Len(hist[p].outcomes) + 1
\* The event kind that outcome res puts in the log.
EventKindOf(res) == IF res = "failed" THEN "dns_lookup_failed" ELSE "ip_changed"

EventsInLog(p) ==
    \A i \in 1 .. Len(hist[p].outcomes) :
        hist[p].outcomes[i].at > 0 =>
            /\ hist[p].outcomes[i].at <= Len(logFile)
            /\ logFile[hist[p].outcomes[i].at].host = hist[p].outcomes[i].host
            /\ logFile[hist[p].outcomes[i].at].event = EventKindOf(hist[p].outcomes[i].res)
\* Run p changed host h and run q neither lists it nor loaded that list for it.
OnlyChangedBy(p, q, h) ==
    /\ \E i \in 1 .. Len(hist[p].outcomes) :
          /\ hist[p].outcomes[i].host = h
          /\ hist[p].outcomes[i].res = "changed"
          /\ hist[p].outcomes[i].ips # Get(Loaded(q).m, h)
    /\ h \notin RunHosts(q)

\* C12: two runs overlap, each loaded the snapshot before the other saved, and
\* the save of run p finished while run q was still running. Once the save of
\* q has ended too, the state file is exactly what one of the two runs dumped
\* from its memory: that of q when the save of q finished, and then an entry
\* only p changed is as q loaded it. The log holds the events of both runs.
C12_LastSaverWins ==
    \A p, q \in Procs :
        (/\ q \in hist[p].overlapped
         /\ pc[p] = "done"
         /\ hist[q].wrote
         /\ pc[q] \in {"done", "crashed"}) =>
            /\ stateFile \in {File(hist[p].saved), File(hist[q].saved)}
            /\ pc[q] = "done" =>
                  /\ stateFile = File(hist[q].saved)
                  /\ \A h \in RunHosts(p) :
                        OnlyChangedBy(p, q, h) =>
                            FileEntry(stateFile, h) = EntryOf(Loaded(q), h)
            /\ EventsInLog(p)
            /\ EventsInLog(q)

\* C13: for an input built from a hostname with an optional scheme, optional
\* credentials, an optional port and an optional path, the name main works
\* with and the name handed to the resolver are the bare hostname, and so are
\* the host of every log event and every key of the state file.
C13_BareHostEverywhere ==
    LET bare == {<<h>> : h \in NormHosts}
    IN  /\ \A p \in Procs, c \in NormCases :
              (pc[p] = "resolve" /\ args[p].hostnames[loc[p].idx] = Build(c)) =>
                  /\ loc[p].host = <<c.host>>
                  /\ loc[p].lookup = <<c.host>>
        /\ \A i \in 1 .. Len(logFile) : logFile[i].host \in bare
        /\ DOMAIN load_state(stateFile).m \subseteq bare

\* C14: while a hostname is being resolved with retries >= 0, the delays so
\* far are at most retries, and when the failure is reported there was one
\* delay between each two attempts and none after the last.
C14_DelaysOnlyBetweenAttempts ==
    \A p \in Procs :
        (pc[p] \in {"resolve", "resolved_ok", "resolved_err"} /\ args[p].retries >= 0) =>
            /\ hist[p].sleeps <= args[p].retries
            /\ pc[p] = "resolved_err" => hist[p].sleeps = Len(hist[p].tries) - 1

\* The resolved list of the i-th hostname of run p differed from the stored one.
DifferedAt(p, i) ==
    /\ ResolvedAt(p, i)
    /\ sorted(hist[p].outcomes[i].prev) # hist[p].outcomes[i].ips

\* C15: a run is in save_state only after it handled every hostname of its
\* list, it enters save_state at most once, and a finished run has saved
\* exactly when the resolved list of at least one hostname differed from the
\* stored one. From the moment the temporary file is opened the run appends
\* nothing to the log, and the state file changes only in the step that ends
\* the save.
C15_SaveOnceAtEnd ==
    /\ [](\A p \in Procs :
             /\ (pc[p] \in {"save_open", "save_write", "save_replace"} \/ hist[p].wrote) =>
                   /\ loc[p].idx > Len(args[p].hostnames)
                   /\ Len(hist[p].outcomes) = Len(args[p].hostnames)
             /\ hist[p].wrote => pc[p] \in {"save_write", "save_replace", "done"}
             /\ pc[p] = "done" =>
                   /\ hist[p].wrote <=> \E i \in 1 .. Len(hist[p].outcomes) : DifferedAt(p, i)
                   /\ hist[p].wrote => stateFile = File(hist[p].saved))
    /\ [][\A p \in Procs :
             /\ (hist[p].wrote /\ hist'[p].wrote) =>
                   /\ logFile' = logFile
                   /\ hist'[p].saved = hist[p].saved
             /\ (pc[p] \in Active /\ stateFile' # stateFile) =>
                   pc[p] = "save_replace" /\ pc'[p] = "done"]_vars

\* A finished run whose first hostname changed and whose second failed: two
\* events in the log, then the state file written.
C15_Witness ==
    /\ pc[1] = "done"
    /\ hist[1].wrote
    /\ Len(hist[1].outcomes) = 2
    /\ hist[1].outcomes[1].res = "changed"
    /\ hist[1].outcomes[2].res = "failed"
    /\ Len(Appended(1)) = 2
    /\ stateFile = File(hist[1].saved)

\* Run p finished with every hostname resolved, directly after a finished run
\* with the same host list in which every hostname resolved too, and each
\* hostname got one and the same list in all its resolutions of both runs.
SameRunAgain(p) ==
    /\ pc[p] = "done"
    /\ hist[p].prev.end = "done"
    /\ hist[p].prev.hostnames = args[p].hostnames
    /\ \A i \in 1 .. Len(args[p].hostnames) : ResolvedAt(p, i)
    /\ \A i, j \in 1 .. Len(args[p].hostnames) :
          hist[p].outcomes[i].host = hist[p].outcomes[j].host =>
              hist[p].prev.answers[i] = hist[p].outcomes[j].ips

\* C16: the second of two such runs appends no ip_changed event (no event at
\* all), does not write the temporary or the state file, and leaves the state
\* file as the first run left it.
C16_SecondRunIdle ==
    \A p \in Procs :
        SameRunAgain(p) =>
            /\ Appended(p) = <<>>
            /\ \A i \in 1 .. Len(hist[p].outcomes) : hist[p].outcomes[i].res = "unchanged"
            /\ ~hist[p].wrote
            /\ tmpFile = NoFile
            /\ stateFile = hist[p].file0

\* The second run over two hostnames that both have addresses, which the
\* first run stored.
C16_Witness ==
    /\ SameRunAgain(1)
    /\ Len(args[1].hostnames) = 2
    /\ hist[1].outcomes[1].host # hist[1].outcomes[2].host
    /\ hist[1].outcomes[1].ips # <<>>
    /\ hist[1].outcomes[2].ips # <<>>
    /\ FileEntry(stateFile, hist[1].outcomes[1].host) = <<hist[1].outcomes[1].ips>>
    /\ FileEntry(stateFile, hist[1].outcomes[2].host) = <<hist[1].outcomes[2].ips>>

\* The places of the ip_changed events of host h in the log.
ChangesOf(h) == {i \in 1 .. Len(logFile) : logFile[i].event = "ip_changed" /\ logFile[i].host = h}
LastChangeOf(h) == CHOOSE i \in ChangesOf(h) : \A j \in ChangesOf(h) : j <= i

\* C17: between complete runs that started from no state file and an empty
\* log, the state file maps every hostname that has an ip_changed event in the
\* log to the after list of its latest ip_changed event, and every hostname in
\* the state file has an ip_changed event in the log.
C17_StateMatchesLog ==
    (\A p \in Procs : pc[p] \in {"idle", "done"}) =>
        /\ \A i \in 1 .. Len(logFile) :
              logFile[i].event = "ip_changed" =>
                  FileEntry(stateFile, logFile[i].host)
                      = <<logFile[LastChangeOf(logFile[i].host)].after>>
        /\ \A h \in DOMAIN load_state(stateFile).m : ChangesOf(h) # {}

\* After two runs a hostname has two ip_changed events with different after
\* lists; the state file holds the later one.
C17_Witness ==
    /\ pc[1] = "done"
    /\ runs = 2
    /\ \E i, j \in ChangesOf(InA) :
          /\ i < j
          /\ j = LastChangeOf(InA)
          /\ logFile[i].after # logFile[j].after
          /\ FileEntry(stateFile, InA) = <<logFile[j].after>>

\* Run p resolved host h to a list that differed from the stored one.
DifferedFor(p, h) ==
    \E i \in 1 .. Len(hist[p].outcomes) : hist[p].outcomes[i].host = h /\ DifferedAt(p, i)

\* C18: after a finished run every entry it loaded for a hostname that is not
\* in its input, that failed or that is unchanged is in the state file with
\* the list it had, and the state file has no entry for a hostname that was
\* neither loaded nor resolved to a differing list.
C18_OtherEntriesKept ==
    \A p \in Procs :
        pc[p] = "done" =>
            /\ \A h \in DOMAIN Loaded(p).m :
                  ~DifferedFor(p, h) => FileEntry(stateFile, h) = <<Loaded(p).m[h]>>
            /\ \A h \in DOMAIN load_state(stateFile).m :
                  h \in DOMAIN Loaded(p).m \/ DifferedFor(p, h)

\* A run that loaded an entry for a, was given only b, changed b and saved:
\* the entry of a is in the state file as it was loaded.
C18_Witness ==
    /\ pc[1] = "done"
    /\ hist[1].wrote
    /\ InA \in DOMAIN Loaded(1).m
    /\ InA \notin RunHosts(1)
    /\ DifferedFor(1, InB)
    /\ FileEntry(stateFile, InA) = <<Loaded(1).m[InA]>>
    /\ FileEntry(stateFile, InB) # FileEntry(hist[1].file0, InB)

\* What the run before run p appended to the log.
PartBefore(p) == SubSeq(logFile, hist[p].prev.log0 + 1, hist[p].log0)
\* s[i] is an ip_changed event, the only one of its hostname in s.
ChangedOnce(s, i) ==
    /\ s[i].event = "ip_changed"
    /\ \A j \in 1 .. Len(s) : (s[j].event = "ip_changed" /\ s[j].host = s[i].host) => j = i
\* Run p resolved host h to list l.
ResolvesTo(p, h, l) ==
    \E j \in 1 .. Len(hist[p].outcomes) :
        /\ hist[p].outcomes[j].host = h
        /\ hist[p].outcomes[j].res # "failed"
        /\ hist[p].outcomes[j].ips = l
\* Run p appended an ip_changed event with the host, before and after of e.
Relogged(p, e) ==
    \E k \in 1 .. Len(Appended(p)) : IsChange(Appended(p)[k], e.host, e.before, e.after)

\* C19 as stated: a terminated run leaves the state file as it was, and the
\* next complete run that resolves the new list of any ip_changed event of the
\* terminated run appends that event again, with the same before and after.
C19_EveryChangeLoggedAgain ==
    \A p \in Procs :
        /\ pc[p] = "killed" => stateFile = hist[p].file0
        /\ (pc[p] = "done" /\ hist[p].prev.end = "killed") =>
              \A i \in 1 .. Len(PartBefore(p)) :
                  (/\ PartBefore(p)[i].event = "ip_changed"
                   /\ ResolvesTo(p, PartBefore(p)[i].host, PartBefore(p)[i].after)) =>
                      Relogged(p, PartBefore(p)[i])

\* C19: a terminated run leaves the state file as it was, so that it holds
\* the before list of the only ip_changed event the run appended for a
\* hostname; the next complete run that lists that hostname once and resolves
\* it to the after list of that event appends the event again, with the same
\* before and after.
C19_SingleChangeLoggedAgain ==
    \A p \in Procs :
        /\ pc[p] = "killed" =>
              /\ stateFile = hist[p].file0
              /\ \A i \in 1 .. Len(Appended(p)) :
                    ChangedOnce(Appended(p), i) =>
                        Get(load_state(stateFile).m, Appended(p)[i].host) = Appended(p)[i].before
        /\ (pc[p] = "done" /\ hist[p].prev.end = "killed") =>
              \A i \in 1 .. Len(PartBefore(p)) :
                  (/\ ChangedOnce(PartBefore(p), i)
                   /\ Cardinality(Occurrences(p, PartBefore(p)[i].host)) = 1
                   /\ ResolvesTo(p, PartBefore(p)[i].host, PartBefore(p)[i].after)) =>
                      Relogged(p, PartBefore(p)[i])

\* A run was terminated after it logged the change of a from [1] to another
\* list; the next run finished and logged the same change: the log holds it
\* twice.
C19_Witness ==
    /\ pc[1] = "done"
    /\ hist[1].prev.end = "killed"
    /\ Len(PartBefore(1)) = 1
    /\ IsChange(PartBefore(1)[1], InA, <<1>>, PartBefore(1)[1].after)
    /\ Len(Appended(1)) = 1
    /\ Appended(1)[1] = PartBefore(1)[1]
    /\ Cardinality(ChangesOf(InA)) = 3

====
